---- MODULE Spec2Model ----
(***************************************************************************)
(* Model of the live-stream recording daemon of src/main.rs: the cron job  *)
(* (two API lookups, scan of the OS process table, launch of yt-dlp and    *)
(* blocking wait), the main task that starts the scheduler, sleeps and     *)
(* returns, and the environment (upstream API, OS process table, the       *)
(* worker threads of the tokio runtime).                                   *)
(***************************************************************************)
EXTENDS Integers, Sequences, FiniteSets, TLC

\* ------------------------------------------------------------------ bounds
\* Number of ticks the scheduler fires in one run of the daemon.
MaxTicks == 2
\* Largest number of worker threads of the tokio runtime (one per core).
MaxWorkers == 2
\* Number of processes of other programs (or of the user) that carry a
\* recorder name when the daemon starts.
MaxExt == 1

VideoIds == {"a", "b"}
ChannelIds == {"UC1"}

VARIABLES
    windows,     \* cfg!(windows): the platform the daemon was built for
    workers,     \* worker threads of the runtime
    mainPc,      \* position of main: "start", "sleep", "drop", "exited"
    sched,       \* the JobScheduler: "idle", "running", "shutdown", "dropped"
    signalled,   \* an external Ctrl-C was received
    channels,    \* upstream: item list the channels endpoint returns
    live,        \* upstream: item list the live search returns (the
                 \* upstream does not change during a run of the daemon)
    procs,       \* the OS process table: set of [pid, name, cmd]
    ticks        \* the job runs fired so far, in firing order

vars == <<windows, workers, mainPc, sched, signalled, channels, live,
          procs, ticks>>

build == <<windows, workers>>
upstream == <<channels, live>>
os == <<procs>>
daemon == <<mainPc, sched, signalled>>

\* ------------------------------------------------------- pure functions
youtube_live_link(video_id) == "https://www.youtube.com/watch?v=" \o video_id

user_search(api_key, channel) ==
    "https://www.googleapis.com/youtube/v3/channels?key=" \o api_key
        \o "&forUsername=" \o channel \o "&part=id"

video_search(api_key, user_id) ==
    "https://www.googleapis.com/youtube/v3/search?part=snippet&channelId="
        \o user_id \o "&type=video&eventType=live&key=" \o api_key

\* Args: the credentials parsed from the command line on every tick.
Args == [api_key |-> "KEY", channel |-> "Acme"]

\* The recorder executable name of the platform (lines 170-174; the value is
\* computed by the job and then not used).
yt_dlp == IF windows THEN "yt-dlp" \o ".exe" ELSE "yt-dlp"

\* The name the process inspector filters by.
ScanName == "yt-dlp.exe"

\* The program the recording supervisor launches.
CommandName == "yt-dlp"

\* The name the OS gives the process launched as CommandName: Windows
\* resolves the program to its .exe file, other hosts keep the name.
SpawnedName == IF windows THEN CommandName \o ".exe" ELSE CommandName

\* ---------------------------------------------------------- HTTP and JSON
Faults == {"none", "network", "status", "schema"}

UserRespItem(id) == [kind |-> "youtube#channel", etag |-> "e", id |-> id]
Item(video_id) ==
    [kind |-> "youtube#searchResult", etag |-> "e",
     id |-> [kind |-> "youtube#video", video_id |-> video_id]]

ListBody(items) ==
    [kind |-> "list", etag |-> "e", page_info |-> "p", items |-> items]

\* What reqwest::get(url).await yields: a transport error, or a response
\* with a status and a body.  A non-2xx status carries the API's error
\* body, a schema mismatch a body without the item list.
Response(fault, items) ==
    CASE fault = "network" -> [ok |-> FALSE]
      [] fault = "status"  -> [ok |-> TRUE, status |-> 403,
                               body |-> [error |-> "forbidden"]]
      [] fault = "schema"  -> [ok |-> TRUE, status |-> 200,
                               body |-> [kind |-> "list", etag |-> "e"]]
      [] OTHER             -> [ok |-> TRUE, status |-> 200,
                               body |-> ListBody(items)]

\* .json::<T>(): Ok when the body has every field of the response struct.
\* The status is not looked at (no error_for_status).
json(resp) ==
    IF {"kind", "etag", "page_info", "items"} \subseteq DOMAIN resp.body
    THEN [ok |-> TRUE, value |-> resp.body]
    ELSE [ok |-> FALSE]

\* The lookup with a body that does not parse taken for an empty list
\* (unwrap_or_default in place of unwrap).
Lookup_lenient(resp) ==
    IF ~resp.ok THEN [panic |-> "get_unwrap"]
    ELSE IF ~json(resp).ok THEN [panic |-> "none", value |-> ListBody(<<>>)]
    ELSE [panic |-> "none", value |-> json(resp).value]

\* reqwest::get(..).await.unwrap().json::<T>().await.unwrap(): the parsed
\* body, or the unwrap that panics.
Lookup(resp) ==
    IF ~resp.ok THEN [panic |-> "get_unwrap"]
    ELSE IF ~json(resp).ok THEN [panic |-> "json_unwrap"]
    ELSE [panic |-> "none", value |-> json(resp).value]

\* ------------------------------------------------------- process inspector
processes_by_exact_name(table) == {p \in table : p.name = ScanName}

\* Orders in which the process map may be iterated.
Orders(S) ==
    {o \in [1..Cardinality(S) -> S] :
        \A i, j \in 1..Cardinality(S) : i # j => o[i] # o[j]}

\* .any(|process| process.cmd()[1] == youtube_live_link(&search.items[0]...))
\* over the filtered processes in iteration order; cmd()[1] of the source is
\* cmd[2] here (sequences start at 1).  Yields "true", "false" or the index
\* that panics.
RECURSIVE any(_, _)
any(order, items) ==
    IF Len(order) = 0 THEN "false"
    ELSE LET process == order[1] IN
         IF Len(process.cmd) < 2 THEN "index_cmd"
         ELSE IF Len(items) < 1 THEN "index_items"
         ELSE IF process.cmd[2] = youtube_live_link(items[1].id.video_id)
              THEN "true"
              ELSE any(SubSeq(order, 2, Len(order)), items)

\* The launch decision with the guard on the length of the item list
\* dropped and a default in place of the missing video id.
launch_unguarded(items, is_running) ==
    IF ~is_running
    THEN [spawn |-> TRUE, program |-> CommandName,
          args |-> <<youtube_live_link(IF Len(items) >= 1
                                       THEN items[1].id.video_id ELSE "")>>]
    ELSE [spawn |-> FALSE]

\* The launch decision taking the last search result in place of the
\* first.
launch_last(items, is_running) ==
    IF Len(items) >= 1 /\ ~is_running
    THEN [spawn |-> TRUE, program |-> CommandName,
          args |-> <<youtube_live_link(items[Len(items)].id.video_id)>>]
    ELSE [spawn |-> FALSE]

\* if search.items.len() >= 1 && !is_running {
\*     Command::new("yt-dlp").args(&[youtube_live_link(&search.items[0]...)])
launch(items, is_running) ==
    IF Len(items) >= 1 /\ ~is_running
    THEN [spawn |-> TRUE, program |-> CommandName,
          args |-> <<youtube_live_link(items[1].id.video_id)>>]
    ELSE [spawn |-> FALSE]

\* -------------------------------------------------------------- the ticks
\* A job run as the scheduler spawns it: the body up to its first await has
\* issued the channels request.
NewTick ==
    [pc |-> "user", user |-> <<>>, search |-> <<>>, is_running |-> FALSE,
     child |-> 0, spawned |-> 0, args |-> <<>>, status |-> "none",
     panic |-> "none",
     steps |-> <<[op |-> "get",
                  url |-> user_search(Args.api_key, Args.channel)]>>]

Tids == 1..Len(ticks)

\* Ticks that occupy a worker thread: between two awaits, or inside the
\* blocking cmd.wait().
Busy == {t \in Tids : ticks[t].pc \in {"scan", "launch", "wait"}}

FreeWorker == Cardinality(Busy) < workers

Set(t, r) == ticks' = [ticks EXCEPT ![t] = r]

\* Item lists the live search may return: none, one or two live videos.
LiveLists == {<<>>, <<Item("a")>>, <<Item("b"), Item("a")>>}

\* Processes of other programs: the recorder run by hand without
\* arguments, with a URL, and with an option before the URL.
ExtProcs ==
    {[pid |-> 101, name |-> ScanName, cmd |-> <<ScanName>>],
     [pid |-> 102, name |-> ScanName,
      cmd |-> <<ScanName, youtube_live_link("a")>>],
     [pid |-> 103, name |-> ScanName,
      cmd |-> <<ScanName, "-q", youtube_live_link("a")>>]}

\* The process id the OS gives the child of job run t.
ChildPid(t) == t

Panicked(tick, why) == [tick EXCEPT !.pc = "panicked", !.panic = why]

Did(tick, step) == [tick EXCEPT !.steps = Append(@, step)]

Init ==
    /\ windows \in BOOLEAN
    /\ workers \in 1..MaxWorkers
    /\ mainPc = "start"
    /\ sched = "idle"
    /\ signalled = FALSE
    /\ channels \in {<<>>} \cup {<<UserRespItem(c)>> : c \in ChannelIds}
    /\ live \in LiveLists
    /\ procs \in {S \in SUBSET ExtProcs : Cardinality(S) <= MaxExt}
    /\ ticks = <<>>

\* ------------------------------------------------------------------ main
\* scheduler.start().await.unwrap()
Start ==
    /\ mainPc = "start"
    /\ mainPc' = "sleep"
    /\ sched' = IF sched = "idle" THEN "running" ELSE sched
    /\ UNCHANGED <<build, signalled, upstream, os, ticks>>

\* The return of main with the recorders killed along with the runtime
\* (children created with kill_on_drop).
MainReturn_kill ==
    /\ mainPc = "sleep"
    /\ mainPc' = "drop"
    /\ sched' = "dropped"
    /\ procs' = {p \in procs : \A t \in Tids : ticks[t].child # p.pid}
    /\ ticks' = [t \in Tids |->
                    IF ticks[t].pc \in {"user", "search"}
                    THEN [ticks[t] EXCEPT !.pc = "cancelled"]
                    ELSE ticks[t]]
    /\ UNCHANGED <<build, signalled, upstream>>

\* The sleep of 10 seconds ends and main returns: the runtime is dropped.
\* Job runs suspended at an await are dropped with it; a run that is on a
\* worker thread keeps the thread until it yields or ends.
MainReturn ==
    /\ mainPc = "sleep"
    /\ mainPc' = "drop"
    /\ sched' = "dropped"
    /\ ticks' = [t \in Tids |->
                    IF ticks[t].pc \in {"user", "search"}
                    THEN [ticks[t] EXCEPT !.pc = "cancelled"]
                    ELSE ticks[t]]
    /\ UNCHANGED <<build, signalled, upstream, os>>

\* The drop of the runtime returns once no worker thread runs a job: the
\* daemon process ends.
Exit ==
    /\ mainPc = "drop"
    /\ Busy = {}
    /\ mainPc' = "exited"
    /\ UNCHANGED <<build, sched, signalled, upstream, os, ticks>>

\* shutdown_on_ctrl_c (compiled in with the "signal" feature): Ctrl-C shuts
\* the scheduler down.
CtrlC ==
    /\ mainPc = "sleep"
    /\ ~signalled
    /\ FreeWorker
    /\ signalled' = TRUE
    /\ sched' = "shutdown"
    /\ UNCHANGED <<build, mainPc, upstream, os, ticks>>

\* ------------------------------------------------------------- scheduler
\* The cron expression "1/10 * * * * *" comes due and the scheduler spawns
\* a run of the job, whatever the earlier runs are doing.
Fire ==
    /\ mainPc = "sleep"
    /\ sched = "running"
    /\ Len(ticks) < MaxTicks
    /\ FreeWorker
    /\ ticks' = Append(ticks, NewTick)
    /\ UNCHANGED <<build, daemon, upstream, os>>

\* --------------------------------------------------------------- the job
\* The channels lookup with a default in place of the missing first item
\* (items.first() and unwrap_or_default in place of items[0]).
UserDone_default(tick, resp) ==
    LET r == Lookup(resp) IN
    IF r.panic # "none" THEN Panicked(tick, r.panic)
    ELSE Did([tick EXCEPT !.user = r.value.items, !.pc = "search"],
             [op |-> "get",
              url |-> video_search(Args.api_key,
                                   IF Len(r.value.items) >= 1
                                   THEN r.value.items[1].id ELSE "")])

\* The channels response arrives: unwrap, parse, unwrap, user.items[0].id,
\* then the search request is issued.
UserDone(tick, resp) ==
    LET r == Lookup(resp) IN
    IF r.panic # "none" THEN Panicked(tick, r.panic)
    ELSE IF Len(r.value.items) < 1
         THEN Panicked([tick EXCEPT !.user = r.value.items], "index_user")
         ELSE Did([tick EXCEPT !.user = r.value.items, !.pc = "search"],
                  [op |-> "get",
                   url |-> video_search(Args.api_key, r.value.items[1].id)])

UserResponse(t) ==
    /\ mainPc \in {"sleep"}
    /\ ticks[t].pc = "user"
    /\ FreeWorker
    /\ \E fault \in Faults : Set(t, UserDone(ticks[t], Response(fault, channels)))
    /\ UNCHANGED <<build, daemon, upstream, os>>

\* The search lookup followed by the launch decision, the inspection of
\* the process table left out.
SearchDone_noscan(tick, resp) ==
    LET r == Lookup(resp) IN
    IF r.panic # "none" THEN Panicked(tick, r.panic)
    ELSE [tick EXCEPT !.search = r.value.items, !.pc = "launch"]

\* The search response arrives: unwrap, parse, unwrap.
SearchDone(tick, resp) ==
    LET r == Lookup(resp) IN
    IF r.panic # "none" THEN Panicked(tick, r.panic)
    ELSE [tick EXCEPT !.search = r.value.items, !.pc = "scan"]

SearchResponse(t) ==
    /\ mainPc \in {"sleep"}
    /\ ticks[t].pc = "search"
    /\ FreeWorker
    /\ \E fault \in Faults : Set(t, SearchDone(ticks[t], Response(fault, live)))
    /\ UNCHANGED <<build, daemon, upstream, os>>

\* System::new_all().processes_by_exact_name(..).any(..)
ScanDone(tick, order) ==
    LET res == any(order, tick.search)
        scanned == Did(tick, [op |-> "scan"])
    IN  IF res \in {"index_cmd", "index_items"} THEN Panicked(scanned, res)
        ELSE [scanned EXCEPT !.is_running = (res = "true"), !.pc = "launch"]

Scan(t) ==
    /\ ticks[t].pc = "scan"
    /\ \E order \in Orders(processes_by_exact_name(procs)) :
          Set(t, ScanDone(ticks[t], order))
    /\ UNCHANGED <<build, daemon, upstream, os>>

\* The process the OS creates for a spawned command.
Recorder(pid, plan) ==
    [pid |-> pid, name |-> SpawnedName, cmd |-> <<plan.program>> \o plan.args]

\* The launch decision; spawn() may fail (binary missing, permission
\* denied) and the unwrap then panics.
Launch(t) ==
    /\ ticks[t].pc = "launch"
    /\ LET plan == launch(ticks[t].search, ticks[t].is_running) IN
       IF plan.spawn
       THEN \/ /\ procs' = procs \cup {Recorder(ChildPid(t), plan)}
               /\ Set(t, Did([ticks[t] EXCEPT !.pc = "wait",
                                              !.child = ChildPid(t),
                                              !.spawned = @ + 1,
                                              !.args = plan.args],
                             [op |-> "spawn"]))
            \/ /\ Set(t, Panicked(ticks[t], "spawn_unwrap"))
               /\ UNCHANGED os
       ELSE /\ Set(t, [ticks[t] EXCEPT !.pc = "done"])
            /\ UNCHANGED os
    /\ UNCHANGED <<build, daemon, upstream>>

\* The end of the wait with every status but success unwrapped into a
\* panic.
WaitDone_strict(tick) ==
    IF tick.status = "Ok(0)"
    THEN Did([tick EXCEPT !.pc = "done"],
             [op |-> "log", status |-> tick.status])
    ELSE Panicked(tick, "wait_unwrap")

\* The end of the wait with the launch decision taken again (the job
\* looping back after its child ended).
WaitDone_relaunch(tick) ==
    Did([tick EXCEPT !.pc = "launch", !.status = "none"],
        [op |-> "log", status |-> tick.status])

\* let status = cmd.wait(); info!("Exited with status {:?}", status);
WaitDone(tick) ==
    Did([tick EXCEPT !.pc = "done"], [op |-> "log", status |-> tick.status])

\* The wait that returns at once, before the child has ended.
WaitReturn_nowait(t) ==
    /\ ticks[t].pc = "wait"
    /\ Set(t, WaitDone(ticks[t]))
    /\ UNCHANGED <<build, daemon, upstream, os>>

\* cmd.wait() returned: the status is logged and the job run ends.
WaitReturn(t) ==
    /\ ticks[t].pc = "wait"
    /\ ticks[t].status # "none"
    /\ Set(t, WaitDone(ticks[t]))
    /\ UNCHANGED <<build, daemon, upstream, os>>

\* ----------------------------------------------------------- environment
WaitResults == {"Ok(0)", "Ok(1)", "Err"}

\* A process ends.  When it is the child a job run waits for, the wait of
\* that run gets its result.
ProcExit(p) ==
    /\ p \in procs
    /\ procs' = procs \ {p}
    /\ IF \E t \in Tids : ticks[t].pc = "wait" /\ ticks[t].child = p.pid
       THEN \E st \in WaitResults :
              ticks' = [t \in Tids |->
                          IF ticks[t].pc = "wait" /\ ticks[t].child = p.pid
                          THEN [ticks[t] EXCEPT !.status = st]
                          ELSE ticks[t]]
       ELSE UNCHANGED ticks
    /\ UNCHANGED <<build, daemon, upstream>>

Next ==
    \/ Start
    \/ MainReturn
    \/ Exit
    \/ CtrlC
    \/ Fire
    \/ \E t \in Tids : UserResponse(t)
    \/ \E t \in Tids : SearchResponse(t)
    \/ \E t \in Tids : Scan(t)
    \/ \E t \in Tids : Launch(t)
    \/ \E t \in Tids : WaitReturn(t)
    \/ \E p \in procs : ProcExit(p)

Spec == Init /\ [][Next]_vars

\* ================================================================ claims
\* The watch URL of a video id, as the specification writes it.
WatchUrl(video_id) == "https://www.youtube.com/watch?v=" \o video_id

\* The URL of the video a job run detected: the first search result.
Detected(tick) == WatchUrl(tick.search[1].id.video_id)

\* url is one of the argument tokens of process p.
Targets(p, url) == \E i \in 2..Len(p.cmd) : p.cmd[i] = url

\* p runs the recorder executable of the platform.
IsRecorder(p) == p.name = yt_dlp

\* The search lookup of the job run succeeded.
SearchReturned(tick) ==
    \/ tick.pc \in {"scan", "launch", "wait", "done"}
    \/ tick.pc = "panicked"
         /\ tick.panic \in {"index_cmd", "index_items", "spawn_unwrap"}

\* Job run t inspects the process table in this step.
Scans(t) == ticks[t].pc = "scan" /\ ticks'[t].pc # "scan"

\* Job run t creates its recorder process in this step.
Spawns(t) == ticks[t].pc = "launch" /\ ticks'[t].pc = "wait"

\* Processes the daemon launched that are still running.
Launched == {p \in procs : \E t \in Tids : ticks[t].child = p.pid}

\* C1: a tick whose lookups both succeed, whose search result is not empty
\* and which finds no process with the detected video's URL among its
\* arguments goes on to launch, and its launch creates exactly one process,
\* whose only argument is the watch URL of the first search result.  (A
\* spawn the OS refuses is not held against the claim.)
C1_LiveUnrecordedSpawnsOne ==
    [][\A t \in Tids :
        /\ (/\ Scans(t)
            /\ Len(ticks[t].search) >= 1
            /\ ~\E p \in procs : Targets(p, Detected(ticks[t])))
           => (ticks'[t].pc = "launch" /\ ~ticks'[t].is_running)
        /\ (Spawns(t) /\ Len(ticks[t].search) >= 1)
           => /\ ticks'[t].spawned = 1
              /\ \E p \in procs' \ procs :
                    /\ procs' = procs \cup {p}
                    /\ p.cmd = <<CommandName, Detected(ticks[t])>>
      ]_vars

\* C2: at no time do two running processes launched by the daemon carry
\* the same watch URL.
C2_AtMostOneRecorderPerUrl ==
    \A p, q \in Launched : p.cmd[2] = q.cmd[2] => p = q

\* C3: a tick that inspects the process table while a recorder process with
\* the detected video's URL among its arguments exists does not go on to
\* spawn a process.
C3_NoSpawnWhenRecorderExists ==
    [][\A t \in Tids :
        (/\ Scans(t)
         /\ Len(ticks[t].search) >= 1
         /\ \E p \in procs : IsRecorder(p) /\ Targets(p, Detected(ticks[t])))
        => ~(/\ ticks'[t].pc = "launch"
             /\ launch(ticks'[t].search, ticks'[t].is_running).spawn)
      ]_vars

\* C4: a tick whose channel lookup resolved and whose live search returned
\* an empty item list has spawned no process, and is not waiting for one.
C4_NotLiveNoSpawn ==
    \A t \in Tids :
        (/\ Len(ticks[t].user) >= 1
         /\ SearchReturned(ticks[t])
         /\ Len(ticks[t].search) = 0)
        => /\ ticks[t].spawned = 0
           /\ ticks[t].child = 0
           /\ ticks[t].pc # "wait"
           /\ ~\E p \in procs : p.pid = ChildPid(t)

\* A tick of a resolved, not live channel has reached its end.
C4_Witness ==
    \E t \in Tids :
        /\ Len(ticks[t].user) >= 1
        /\ Len(ticks[t].search) = 0
        /\ ticks[t].pc = "done"
        /\ ticks[t].spawned = 0

\* C5: a tick whose search returned zero items goes through the inspection
\* of the process table without aborting, whatever well-formed processes the
\* table holds (every process run with at least one argument), and then
\* ends without spawning.
C5_EmptySearchEndsNormally ==
    [][\A t \in Tids :
        /\ (/\ Scans(t)
            /\ Len(ticks[t].search) = 0
            /\ \A p \in procs : Len(p.cmd) >= 2)
           => ticks'[t].pc = "launch"
        /\ (/\ ticks[t].pc = "launch"
            /\ Len(ticks[t].search) = 0
            /\ ticks'[t] # ticks[t])
           => (ticks'[t].pc = "done" /\ procs' = procs)
      ]_vars

\* C6: as long as no shutdown signal was received the daemon is running:
\* main has not returned and the scheduler has not been shut down.
C6_RunsUntilSignalled ==
    ~signalled => (mainPc \in {"start", "sleep"} /\ sched \in {"idle", "running"})

\* C7: a tick that inspects the process table while a recorder launched by
\* an earlier tick for the same video is still running, and whose inspection
\* yields a result, reports that a recorder is running.
C7_InspectorFindsLaunchedRecorder ==
    [][\A t \in Tids :
        (/\ Scans(t)
         /\ Len(ticks[t].search) >= 1
         /\ \E p \in Launched : p.cmd[2] = Detected(ticks[t])
         /\ ticks'[t].pc = "launch")
        => ticks'[t].is_running
      ]_vars

\* C8: the already-recording check yields a boolean for every process table,
\* and the boolean is true exactly when a process of the filtered name has
\* the live-video URL as one of its argument tokens.
C8_CheckIsMembership ==
    [][\A t \in Tids :
        (Scans(t) /\ Len(ticks[t].search) >= 1)
        => /\ ticks'[t].pc = "launch"
           /\ ticks'[t].is_running =
                (\E p \in processes_by_exact_name(procs) :
                    Targets(p, Detected(ticks[t])))
      ]_vars

\* The panics of the two API lookups.
LookupPanics == {"get_unwrap", "json_unwrap"}

TickStep(t) ==
    \/ UserResponse(t)
    \/ SearchResponse(t)
    \/ Scan(t)
    \/ Launch(t)
    \/ WaitReturn(t)

Aborted(tick) == tick.pc = "panicked"

\* C10: after a tick has aborted, and as long as no shutdown signal was
\* received, the scheduler is still there to fire the following ticks.
C10_AbortLeavesSchedulerFiring ==
    ((\E t \in Tids : Aborted(ticks[t])) /\ ~signalled)
    => (mainPc = "sleep" /\ sched = "running")

\* C11: a channels response with an empty item list ends the tick at that
\* point: the tick has issued the channels request only, it inspects no
\* process, spawns nothing and takes no further step.
C11_EmptyChannelEndsTick ==
    \A t \in Tids :
        /\ ticks[t].pc = "user"
           => LET n == UserDone(ticks[t], Response("none", <<>>)) IN
              /\ n.pc = "panicked" /\ n.panic = "index_user"
              /\ n.steps = ticks[t].steps
        /\ ticks[t].panic = "index_user"
           => /\ ticks[t].pc = "panicked"
              /\ Len(ticks[t].user) = 0
              /\ ticks[t].steps =
                    <<[op |-> "get",
                       url |-> user_search(Args.api_key, Args.channel)]>>
              /\ ticks[t].spawned = 0 /\ ticks[t].child = 0
              /\ ~\E p \in procs : p.pid = ChildPid(t)
              /\ ~ENABLED TickStep(t)

\* A tick ended by a channel name that resolves to no channel.
C11_Witness ==
    \E t \in Tids : ticks[t].panic = "index_user" /\ channels = <<>>

\* Some tick is blocked in the wait for its recorder, and nothing else
\* occupies a worker thread.
OnlyWaitsBusy ==
    /\ \E u \in Tids : ticks[u].pc = "wait" /\ ticks[u].status = "none"
    /\ \A u \in Busy : ticks[u].pc = "wait"

\* C12: while earlier ticks are blocked in the wait for their recorders,
\* the scheduler (running, with ticks left to fire) can fire the next tick,
\* and a tick whose response has arrived can go on with its detection.
C12_BlockedTicksHoldNothingBack ==
    (mainPc = "sleep" /\ OnlyWaitsBusy)
    => /\ (sched = "running" /\ Len(ticks) < MaxTicks) => ENABLED Fire
       /\ \A t \in Tids :
             /\ ticks[t].pc = "user" => ENABLED UserResponse(t)
             /\ ticks[t].pc = "search" => ENABLED SearchResponse(t)

\* The scheduler was shut down (Ctrl-C) or dropped (main returned).
Shutdown == sched \in {"shutdown", "dropped"}

\* Tick t is blocked in the wait for its recorder.
Blocked(t) == ticks[t].pc = "wait" /\ ticks[t].status = "none"

\* The recorder process of tick t is running.
RecorderRuns(t) ==
    \E p \in procs :
        p.pid = ticks[t].child /\ p.cmd = <<CommandName>> \o ticks[t].args

\* C13: after the shutdown no new tick can start; the recorder of every tick
\* still blocked in its wait is running, that tick cannot go on, and the
\* daemon process has not ended.
C13_ShutdownStopsOnlyNewTicks ==
    Shutdown
    => /\ ~ENABLED Fire
       /\ \A t \in Tids :
             Blocked(t) => /\ RecorderRuns(t)
                           /\ ~ENABLED WaitReturn(t)
                           /\ mainPc # "exited"

\* After main returned, a recorder spawned before is running and its tick
\* is blocked.
C13_Witness ==
    /\ sched = "dropped"
    /\ \E t \in Tids : Blocked(t) /\ RecorderRuns(t)

\* The last step a tick has taken.
LastStep(tick) == tick.steps[Len(tick.steps)]

\* C14: whatever the result of the wait (exit status zero, non-zero, or a
\* failed wait), the tick logs it and ends normally: it never panics on it.
C14_ExitStatusOnlyLogged ==
    \A t \in Tids :
        /\ ticks[t].pc = "wait"
           => \A st \in WaitResults :
                LET n == WaitDone([ticks[t] EXCEPT !.status = st]) IN
                /\ n.pc = "done" /\ n.panic = "none"
                /\ LastStep(n) = [op |-> "log", status |-> st]
        /\ (ticks[t].pc = "wait" /\ ticks[t].status # "none")
           => ENABLED WaitReturn(t)
        /\ ticks[t].status # "none"
           => /\ ticks[t].pc \in {"wait", "done"}
              /\ ticks[t].panic = "none"
              /\ ticks[t].pc = "done"
                 => LastStep(ticks[t]) =
                        [op |-> "log", status |-> ticks[t].status]

\* A tick has ended after its recorder exited with a non-zero status.
C14_Witness ==
    \E t \in Tids : ticks[t].pc = "done" /\ ticks[t].status = "Ok(1)"

\* What a detection yields for the recording supervisor, given the item
\* list of the search: "not live", or the URL to record.
Detection(items) ==
    LET plan == launch(items, FALSE) IN
    IF plan.spawn THEN plan.args[1] ELSE "not live"

\* A detection run now, with both lookups answered by the upstream.
DetectNow ==
    LET u == UserDone(NewTick, Response("none", channels)) IN
    IF u.pc # "search" THEN "failed"
    ELSE LET d == SearchDone(u, Response("none", live)) IN
         IF d.pc # "scan" THEN "failed" ELSE Detection(d.search)

\* The watch URL of each video id.
WatchUrls == [v \in VideoIds |-> WatchUrl(v)]

\* C15: against an unchanged upstream every detection yields the same
\* result: the detection of each tick equals that of every other tick and
\* that of a detection run now, and it is "not live" for an empty item list
\* and the watch URL of the first item otherwise, which is also what a tick
\* that spawned passed to its recorder.
C15_DetectionIdempotent ==
    LET returned == {t \in Tids : SearchReturned(ticks[t])}
        results == {ticks[t].search : t \in returned}
        expected == IF Len(live) = 0 THEN "not live"
                    ELSE WatchUrls[live[1].id.video_id]
    IN  /\ \A items \in results :
              /\ Detection(items) = DetectNow
              /\ Detection(items) = expected
        /\ Cardinality({Detection(items) : items \in results}) <= 1
        /\ \A t \in returned :
              ticks[t].spawned > 0 => ticks[t].args = <<expected>>

\* Two ticks have detected against a search result of two items, and one
\* of them has spawned.
C15_Witness ==
    /\ Len(live) = 2
    /\ \E t, u \in Tids :
          /\ t # u
          /\ SearchReturned(ticks[t]) /\ SearchReturned(ticks[u])
          /\ ticks[t].spawned > 0

\* The operations a tick has performed, in order.
Ops(tick) == [i \in 1..Len(tick.steps) |-> tick.steps[i].op]

\* The order of the pipeline: the two requests, the inspection, the spawn,
\* the log of the exit status.
Pipeline == <<"get", "get", "scan", "spawn", "log">>

\* The URL of the channels request, and the URL of the search request for
\* each channel id.
ChannelsRequest == user_search(Args.api_key, Args.channel)
SearchRequest == [c \in ChannelIds |-> video_search(Args.api_key, c)]

\* C16: the operations of every tick are a prefix of the pipeline: the
\* search request follows a channels lookup that returned a channel id (and
\* carries that id), the inspection follows a search lookup that returned,
\* and the spawn follows an inspection of the same tick that reported no
\* matching recorder.
C16_PipelineOrder ==
    \A t \in Tids :
        LET tick == ticks[t]
            n == Len(tick.steps)
        IN  /\ n >= 1 /\ n <= Len(Pipeline)
            /\ \A i \in 1..n : tick.steps[i].op = Pipeline[i]
            /\ tick.steps[1].url = ChannelsRequest
            /\ n >= 2 => /\ Len(tick.user) >= 1
                          /\ tick.user[1].id \in ChannelIds
                          /\ tick.steps[2].url = SearchRequest[tick.user[1].id]
            /\ n >= 3 => SearchReturned(tick)
            /\ n >= 4 => (~tick.is_running /\ tick.spawned = 1)
            /\ tick.pc = "search" => n = 2
            /\ tick.pc = "scan" => n = 2
            /\ tick.pc = "launch" => n = 3
            /\ tick.pc = "wait" => n = 4
            /\ tick.spawned > 0 => n >= 4

\* A tick has gone through the whole pipeline.
C16_Witness ==
    \E t \in Tids : Ops(ticks[t]) = Pipeline /\ ticks[t].pc = "done"

\* C17: a tick that spawned a recorder ends only after that recorder has
\* ended, with the result of the wait logged; while the recorder runs the
\* tick cannot go on.  A tick that ended without spawning had a false
\* launch condition, waited for nothing and logged nothing.
C17_SpawnerWaitsForChild ==
    \A t \in Tids :
        LET tick == ticks[t] IN
        /\ tick.pc = "wait" => tick.spawned = 1
        /\ Blocked(t) => (RecorderRuns(t) /\ ~ENABLED WaitReturn(t))
        /\ (tick.pc = "done" /\ tick.spawned > 0)
           => /\ ~\E p \in procs : p.pid = tick.child
              /\ tick.status \in WaitResults
              /\ LastStep(tick) = [op |-> "log", status |-> tick.status]
              /\ launch(tick.search, tick.is_running).spawn
        /\ (tick.pc = "done" /\ tick.spawned = 0)
           => /\ ~launch(tick.search, tick.is_running).spawn
              /\ tick.child = 0 /\ tick.status = "none"
              /\ Ops(tick) = <<"get", "get", "scan">>

\* One tick has ended after its recorder did, and another has ended at
\* once because it found a recorder running.
C17_Witness ==
    \E t, u \in Tids :
        /\ ticks[t].pc = "done" /\ ticks[t].spawned = 1
        /\ ticks[u].pc = "done" /\ ticks[u].spawned = 0
        /\ ticks[u].is_running

\* Within one tick the URL handed to the recorder is the URL the check of
\* that tick compares with: the comparison of the check, applied to the
\* recorder's own argument vector, is true.
C18_SameConstruction ==
    \A t \in Tids :
        ticks[t].spawned > 0
        => /\ ticks[t].args = <<Detected(ticks[t])>>
           /\ any(<<[cmd |-> <<CommandName>> \o ticks[t].args]>>,
                  ticks[t].search) = "true"

\* C18: the URL of the check and the URL of the spawned recorder are the
\* same within a tick, and so the check of a later tick that detects the
\* same video, when it yields a result, reports the running recorder an
\* earlier tick spawned for it.
C18_SpawnedRecorderMatchesLaterCheck ==
    /\ []C18_SameConstruction
    /\ [][\A t \in Tids :
            (/\ Scans(t)
             /\ Len(ticks[t].search) >= 1
             /\ \E u \in Tids :
                   /\ Blocked(u) /\ RecorderRuns(u)
                   /\ ticks[u].args = <<Detected(ticks[t])>>
             /\ \A p \in procs : Len(p.cmd) >= 2)
            => (ticks'[t].pc = "launch" /\ ticks'[t].is_running)
         ]_vars

\* The number of spawns among the steps of a tick.
SpawnCount(tick) ==
    Cardinality({i \in 1..Len(tick.steps) : tick.steps[i].op = "spawn"})

\* C19: a tick spawns at most one recorder over its whole execution,
\* whatever the responses and the process table are: it has spawned at most
\* once, at most one process is its child, and once its child has ended and
\* the status is logged (or it panicked) the tick takes no further step.
C19_AtMostOneSpawnPerTick ==
    \A t \in Tids :
        LET tick == ticks[t] IN
        /\ tick.spawned \in {0, 1}
        /\ SpawnCount(tick) = tick.spawned
        /\ Cardinality({p \in procs : p.pid = ChildPid(t)}) <= tick.spawned
        /\ tick.pc \in {"done", "panicked"} => ~ENABLED TickStep(t)

\* A tick whose recorder ended with a failed wait is over while the channel
\* is still live and nothing records it: the launch condition would hold
\* again, and the tick does not relaunch.
C19_Witness ==
    \E t \in Tids :
        /\ ticks[t].pc = "done" /\ ticks[t].spawned = 1
        /\ ticks[t].status = "Err"
        /\ launch(live, FALSE).spawn
        /\ ~\E p \in procs : IsRecorder(p)

====
